---- MODULE Spec2Model ----
(***************************************************************************)
(* Model of .github/translation/translate_repo.py: the translation         *)
(* dispatcher, the Markdown segmenter, the JSON description walker and the *)
(* rule-based translator.                                                  *)
(*                                                                         *)
(* A Python str is a sequence of one-character strings.  A non-ASCII       *)
(* character is written by its code point, "U691C" for U+691C, and the     *)
(* grave accent of a code fence by the name BACKTICK.                      *)
(***************************************************************************)
EXTENDS Integers, Sequences, FiniteSets

VARIABLES
  USE_OPENAI,  \* bool(os.environ.get("OPENAI_API_KEY"))
  USE_DEEPL,   \* bool(os.environ.get("DEEPL_API_KEY"))
  pc,          \* "ready", or "returned" once the function called has returned
  fn,          \* the function called
  text,        \* its argument text (or s)
  obj,         \* its argument obj
  glossary,    \* its argument glossary: the dict's items, in the dict's order
  bilingual,   \* its argument bilingual
  ret,         \* the string it returned
  out,         \* the list out of translate_markdown_like
  new_data,    \* the tree translate_json_descriptions returned
  calls,       \* every call of a translator made meanwhile, in order
  log          \* what the program has written to stdout, stderr or a logger

vars == <<USE_OPENAI, USE_DEEPL, pc, fn, text, obj, glossary, bilingual,
          ret, out, new_data, calls, log>>

----------------------------------------------------------------------------
(* Characters *)

\* The characters of the model that are not \w for Python's re (everything
\* else, the ASCII letters and the Japanese letters, is \w).
BACKTICK == "BACKTICK"

NonWordChars == {" ", "\n", "\t", BACKTICK, ".", ":", "[", "]", "-"}

\* str.isspace() on the characters of the model
SpaceChars == {" ", "\n", "\t"}

IsWord(c) == c \notin NonWordChars

IsSpace(c) == c \in SpaceChars

UpperCase == <<"A", "B", "C", "D", "E", "F", "G", "H", "I", "J", "K", "L", "M",
               "N", "O", "P", "Q", "R", "S", "T", "U", "V", "W", "X", "Y", "Z">>

LowerCase == <<"a", "b", "c", "d", "e", "f", "g", "h", "i", "j", "k", "l", "m",
               "n", "o", "p", "q", "r", "s", "t", "u", "v", "w", "x", "y", "z">>

ToLower == [c \in {UpperCase[i] : i \in 1..Len(UpperCase)} |->
              LowerCase[CHOOSE i \in 1..Len(UpperCase) : UpperCase[i] = c]]

\* case folding of re.IGNORECASE
Lower(c) == IF c \in DOMAIN ToLower THEN ToLower[c] ELSE c

\* s[i:] starts with w (exactly)
StartsWith(s, i, w) ==
  /\ i + Len(w) - 1 <= Len(s)
  /\ \A k \in 1..Len(w) : s[i + k - 1] = w[k]

\* s[i:] starts with w, ignoring case
StartsWithCI(s, i, w) ==
  /\ i + Len(w) - 1 <= Len(s)
  /\ \A k \in 1..Len(w) : Lower(s[i + k - 1]) = Lower(w[k])

\* \b holds just before position p of s (p = Len(s) + 1 is the end)
WordBoundary(s, p) ==
  (p > 1 /\ IsWord(s[p - 1])) # (p <= Len(s) /\ IsWord(s[p]))

\* s[i:j], 1-based and inclusive
Slice(s, i, j) == SubSeq(s, i, j)

Min(S) == CHOOSE i \in S : \A k \in S : i <= k

RECURSIVE Join(_)
\* "".join(parts)
Join(parts) ==
  IF parts = <<>> THEN <<>> ELSE Head(parts) \o Join(Tail(parts))

\* str.strip()
Strip(s) ==
  LET keep == {i \in 1..Len(s) : ~IsSpace(s[i])}
  IN  IF keep = {} THEN <<>>
      ELSE Slice(s, CHOOSE i \in keep : \A k \in keep : i <= k,
                    CHOOSE j \in keep : \A k \in keep : k <= j)

RECURSIVE StrReplaceFrom(_, _, _, _)
\* the occurrences of old are taken from the left and do not overlap
StrReplaceFrom(s, old, new, pos) ==
  LET starts == {i \in pos..Len(s) : StartsWith(s, i, old)}
  IN  IF starts = {} THEN Slice(s, pos, Len(s))
      ELSE LET i == Min(starts)
           IN  Slice(s, pos, i - 1) \o new
                 \o StrReplaceFrom(s, old, new, i + Len(old))

\* s.replace(old, new) for a non-empty old
StrReplace(s, old, new) == StrReplaceFrom(s, old, new, 1)

----------------------------------------------------------------------------
(* split_md_blocks *)

Fence == <<BACKTICK, BACKTICK, BACKTICK>>

\* the positions at or after pos where ```.*?``` matches (DOTALL: any
\* characters, newlines too, may stand between the two fences)
MatchStarts(s, pos) ==
  {i \in pos..Len(s) :
     /\ StartsWith(s, i, Fence)
     /\ \E j \in (i + 3)..Len(s) : StartsWith(s, j, Fence)}

\* the position of the closing fence of the non-greedy match starting at i
MatchClose(s, i) == Min({j \in (i + 3)..Len(s) : StartsWith(s, j, Fence)})

RECURSIVE ReSplitFrom_NoCapture(_, _)
\* a slip: the pattern without its capturing group, so the fences are dropped
ReSplitFrom_NoCapture(s, pos) ==
  IF MatchStarts(s, pos) = {} THEN <<Slice(s, pos, Len(s))>>
  ELSE <<Slice(s, pos, Min(MatchStarts(s, pos)) - 1)>>
         \o ReSplitFrom_NoCapture(s, MatchClose(s, Min(MatchStarts(s, pos))) + 3)

RECURSIVE ReSplitFrom_OpenRunsToEnd(_, _)
\* another reading: a fence that is never closed opens a code part that runs
\* to the end of the text
ReSplitFrom_OpenRunsToEnd(s, pos) ==
  IF MatchStarts(s, pos) # {}
  THEN <<Slice(s, pos, Min(MatchStarts(s, pos)) - 1),
         Slice(s, Min(MatchStarts(s, pos)), MatchClose(s, Min(MatchStarts(s, pos))) + 2)>>
         \o ReSplitFrom_OpenRunsToEnd(s, MatchClose(s, Min(MatchStarts(s, pos))) + 3)
  ELSE IF \E i \in pos..Len(s) : StartsWith(s, i, Fence)
  THEN <<Slice(s, pos, Min({i \in pos..Len(s) : StartsWith(s, i, Fence)}) - 1),
         Slice(s, Min({i \in pos..Len(s) : StartsWith(s, i, Fence)}), Len(s))>>
  ELSE <<Slice(s, pos, Len(s))>>

RECURSIVE ReSplitFrom(_, _)
ReSplitFrom(s, pos) ==
  IF MatchStarts(s, pos) = {} THEN <<Slice(s, pos, Len(s))>>
  ELSE LET i == Min(MatchStarts(s, pos))
           j == MatchClose(s, i)
       IN  <<Slice(s, pos, i - 1), Slice(s, i, j + 2)>> \o ReSplitFrom(s, j + 3)

\* re.split(r"(```.*?```)", text, flags=re.DOTALL)
ReSplit(s) == ReSplitFrom(s, 1)

\* the generator's (kind, part) pairs; parts[i] has the Python index i - 1
split_md_blocks(s) ==
  LET parts == ReSplit(s)
  IN  [i \in 1..Len(parts) |->
         [kind |-> IF (i - 1) % 2 = 1 THEN "code" ELSE "text", part |-> parts[i]]]

----------------------------------------------------------------------------
(* Inputs: documents, texts and glossaries *)

\* longest document, in pieces
MaxPieces == 5
\* longest text handed to translate_text_block or rule_based_translate, in words
MaxWords == 2

RECURSIVE Concats(_, _)
\* the concatenations of at most n members of P
Concats(P, n) ==
  IF n = 0 THEN {<<>>}
  ELSE LET shorter == Concats(P, n - 1)
       IN  shorter \cup {p \o s : p \in P, s \in shorter}

LogWord == <<"l", "o", "g">>
SearchWord == <<"S", "e", "a", "r", "c", "h">>
IssueWord == <<"I", "s", "s", "u", "e">>

\* Markdown documents
DocPieces == {Fence, <<BACKTICK>>, <<"\n">>, LogWord}
Docs == Concats(DocPieces, MaxPieces)

\* texts of a span or of a description
TextPieces == {<<" ">>, <<"\n">>, LogWord, <<"F", "i", "l", "e", "s">>, <<"x">>}
Texts == Concats(TextPieces, MaxWords)

\* texts for the rule-based translator alone
RulePieces == {SearchWord, <<"s", "e", "a", "r", "c", "h", "e", "s">>, IssueWord,
               <<"i", "n", "g">>, <<" ">>, <<" ", "e", ".", "g", ".">>}
RuleTexts == Concats(RulePieces, MaxWords)

\* what load_glossary returns: en and ja non-empty, the en distinct
Glossaries ==
  { <<>>,
    <<[en |-> LogWord, ja |-> <<"U8A18", "U9332">>]>>,
    <<[en |-> SearchWord, ja |-> <<"U30B5", "U30FC", "U30C1">>]>>,
    <<[en |-> IssueWord, ja |-> <<"U8AB2", "U984C">>],
      [en |-> SearchWord, ja |-> <<"U30B5", "U30FC", "U30C1">>]>> }

\* the parts of the documents that split_md_blocks tags as text
SpanTexts ==
  UNION {{split_md_blocks(d)[i].part : i \in {j \in 1..Len(split_md_blocks(d)) :
                                                split_md_blocks(d)[j].kind = "text"}} :
           d \in Docs}

----------------------------------------------------------------------------
(* rule_based_translate *)

\* The catalog: \b stem (suf)? \b  ->  rep, in the source's order.
reps ==
  <<
    [stem |-> <<"E", "x", "e", "c", "u", "t", "e">>, suf |-> <<"s">>,
     rep |-> <<"U5B9F", "U884C", "U3057", "U307E", "U3059">>],
    [stem |-> <<"S", "e", "a", "r", "c", "h">>, suf |-> <<"e", "s">>,
     rep |-> <<"U691C", "U7D22", "U3057", "U307E", "U3059">>],
    [stem |-> <<"C", "r", "e", "a", "t", "e">>, suf |-> <<"s">>,
     rep |-> <<"U4F5C", "U6210", "U3057", "U307E", "U3059">>],
    [stem |-> <<"O", "p", "e", "n">>, suf |-> <<"s">>,
     rep |-> <<"U958B", "U304D", "U307E", "U3059">>],
    [stem |-> <<"R", "e", "a", "d">>, suf |-> <<"s">>,
     rep |-> <<"U8AAD", "U307F", "U53D6", "U308A", "U307E", "U3059">>],
    [stem |-> <<"W", "r", "i", "t", "e">>, suf |-> <<"s">>,
     rep |-> <<"U66F8", "U304D", "U8FBC", "U307F", "U307E", "U3059">>],
    [stem |-> <<"U", "p", "d", "a", "t", "e">>, suf |-> <<"s">>,
     rep |-> <<"U66F4", "U65B0", "U3057", "U307E", "U3059">>],
    [stem |-> <<"D", "e", "l", "e", "t", "e">>, suf |-> <<"s">>,
     rep |-> <<"U524A", "U9664", "U3057", "U307E", "U3059">>],
    [stem |-> <<"L", "i", "s", "t">>, suf |-> <<"s">>,
     rep |-> <<"U4E00", "U89A7", "U3092", "U53D6", "U5F97", "U3057", "U307E", "U3059">>],
    [stem |-> <<"R", "e", "t", "u", "r", "n">>, suf |-> <<"s">>,
     rep |-> <<"U8FD4", "U3057", "U307E", "U3059">>],
    [stem |-> <<"C", "h", "e", "c", "k">>, suf |-> <<"s">>,
     rep |-> <<"U78BA", "U8A8D", "U3057", "U307E", "U3059">>],
    [stem |-> <<"V", "a", "l", "i", "d", "a", "t", "e">>, suf |-> <<"s">>,
     rep |-> <<"U691C", "U8A3C", "U3057", "U307E", "U3059">>],
    [stem |-> <<"G", "e", "n", "e", "r", "a", "t", "e">>, suf |-> <<"s">>,
     rep |-> <<"U751F", "U6210", "U3057", "U307E", "U3059">>],
    [stem |-> <<"U", "p", "l", "o", "a", "d">>, suf |-> <<"s">>,
     rep |-> <<"U30A2", "U30C3", "U30D7", "U30ED", "U30FC", "U30C9", "U3057", "U307E", "U3059">>],
    [stem |-> <<"D", "o", "w", "n", "l", "o", "a", "d">>, suf |-> <<"s">>,
     rep |-> <<"U30C0", "U30A6", "U30F3", "U30ED", "U30FC", "U30C9", "U3057", "U307E", "U3059">>],
    [stem |-> <<"C", "o", "n", "v", "e", "r", "t">>, suf |-> <<"s">>,
     rep |-> <<"U5909", "U63DB", "U3057", "U307E", "U3059">>],
    [stem |-> <<"C", "o", "m", "p", "a", "r", "e">>, suf |-> <<"s">>,
     rep |-> <<"U6BD4", "U8F03", "U3057", "U307E", "U3059">>],
    [stem |-> <<"E", "x", "t", "r", "a", "c", "t">>, suf |-> <<"s">>,
     rep |-> <<"U62BD", "U51FA", "U3057", "U307E", "U3059">>],
    [stem |-> <<"F", "i", "l", "t", "e", "r">>, suf |-> <<"s">>,
     rep |-> <<"U30D5", "U30A3", "U30EB", "U30BF", "U3057", "U307E", "U3059">>],
    [stem |-> <<"S", "o", "r", "t">>, suf |-> <<"s">>,
     rep |-> <<"U30BD", "U30FC", "U30C8", "U3057", "U307E", "U3059">>],
    [stem |-> <<"S", "u", "m", "m", "a", "r", "i", "z", "e">>, suf |-> <<"s">>,
     rep |-> <<"U8981", "U7D04", "U3057", "U307E", "U3059">>],
    [stem |-> <<"T", "r", "a", "n", "s", "l", "a", "t", "e">>, suf |-> <<"s">>,
     rep |-> <<"U7FFB", "U8A33", "U3057", "U307E", "U3059">>],
    [stem |-> <<"A", "n", "a", "l", "y", "z", "e">>, suf |-> <<"s">>,
     rep |-> <<"U5206", "U6790", "U3057", "U307E", "U3059">>],
    [stem |-> <<"S", "c", "h", "e", "d", "u", "l", "e">>, suf |-> <<"s">>,
     rep |-> <<"U30B9", "U30B1", "U30B8", "U30E5", "U30FC", "U30EB", "U3057", "U307E", "U3059">>],
    [stem |-> <<"N", "o", "t", "i", "f", "y">>, suf |-> <<"i", "e", "s">>,
     rep |-> <<"U901A", "U77E5", "U3057", "U307E", "U3059">>],
    [stem |-> <<"f", "i", "l", "e">>, suf |-> <<"s">>,
     rep |-> <<"U30D5", "U30A1", "U30A4", "U30EB">>],
    [stem |-> <<"f", "o", "l", "d", "e", "r">>, suf |-> <<"s">>,
     rep |-> <<"U30D5", "U30A9", "U30EB", "U30C0">>],
    [stem |-> <<"d", "i", "r", "e", "c", "t", "o", "r", "y">>, suf |-> <<"i", "e", "s">>,
     rep |-> <<"U30C7", "U30A3", "U30EC", "U30AF", "U30C8", "U30EA">>],
    [stem |-> <<"p", "a", "t", "h">>, suf |-> <<"s">>,
     rep |-> <<"U30D1", "U30B9">>],
    [stem |-> <<"c", "o", "m", "m", "a", "n", "d">>, suf |-> <<"s">>,
     rep |-> <<"U30B3", "U30DE", "U30F3", "U30C9">>],
    [stem |-> <<"s", "c", "r", "i", "p", "t">>, suf |-> <<"s">>,
     rep |-> <<"U30B9", "U30AF", "U30EA", "U30D7", "U30C8">>],
    [stem |-> <<"r", "e", "p", "o", "s", "i", "t", "o", "r", "y">>, suf |-> <<>>,
     rep |-> <<"U30EA", "U30DD", "U30B8", "U30C8", "U30EA">>],
    [stem |-> <<"b", "r", "a", "n", "c", "h">>, suf |-> <<"e", "s">>,
     rep |-> <<"U30D6", "U30E9", "U30F3", "U30C1">>],
    [stem |-> <<"c", "o", "m", "m", "i", "t">>, suf |-> <<"s">>,
     rep |-> <<"U30B3", "U30DF", "U30C3", "U30C8">>],
    [stem |-> <<"p", "u", "l", "l", " ", "r", "e", "q", "u", "e", "s", "t">>, suf |-> <<"s">>,
     rep |-> <<"U30D7", "U30EB", "U30EA", "U30AF", "U30A8", "U30B9", "U30C8">>],
    [stem |-> <<"i", "s", "s", "u", "e">>, suf |-> <<"s">>,
     rep |-> <<"I", "s", "s", "u", "e">>],
    [stem |-> <<"t", "o", "k", "e", "n">>, suf |-> <<"s">>,
     rep |-> <<"U30C8", "U30FC", "U30AF", "U30F3">>],
    [stem |-> <<"p", "a", "r", "a", "m", "e", "t", "e", "r">>, suf |-> <<"s">>,
     rep |-> <<"U30D1", "U30E9", "U30E1", "U30FC", "U30BF">>],
    [stem |-> <<"p", "r", "o", "p", "e", "r", "t", "y">>, suf |-> <<"i", "e", "s">>,
     rep |-> <<"U30D7", "U30ED", "U30D1", "U30C6", "U30A3">>],
    [stem |-> <<"s", "c", "h", "e", "m", "a">>, suf |-> <<>>,
     rep |-> <<"U30B9", "U30AD", "U30FC", "U30DE">>],
    [stem |-> <<"m", "o", "d", "e", "l">>, suf |-> <<"s">>,
     rep |-> <<"U30E2", "U30C7", "U30EB">>],
    [stem |-> <<"t", "o", "o", "l">>, suf |-> <<"s">>,
     rep |-> <<"U30C4", "U30FC", "U30EB">>],
    [stem |-> <<"q", "u", "e", "r", "y">>, suf |-> <<>>,
     rep |-> <<"U30AF", "U30A8", "U30EA">>],
    [stem |-> <<"l", "o", "g">>, suf |-> <<"s">>,
     rep |-> <<"U30ED", "U30B0">>],
    [stem |-> <<"e", "r", "r", "o", "r">>, suf |-> <<"s">>,
     rep |-> <<"U30A8", "U30E9", "U30FC">>],
    [stem |-> <<"w", "a", "r", "n", "i", "n", "g">>, suf |-> <<"s">>,
     rep |-> <<"U8B66", "U544A">>],
    [stem |-> <<"o", "u", "t", "p", "u", "t">>, suf |-> <<>>,
     rep |-> <<"U51FA", "U529B">>],
    [stem |-> <<"i", "n", "p", "u", "t">>, suf |-> <<>>,
     rep |-> <<"U5165", "U529B">>],
    [stem |-> <<"r", "e", "s", "u", "l", "t">>, suf |-> <<"s">>,
     rep |-> <<"U7D50", "U679C">>],
    [stem |-> <<"e", "x", "a", "m", "p", "l", "e">>, suf |-> <<"s">>,
     rep |-> <<"U4F8B">>],
    [stem |-> <<"d", "e", "f", "a", "u", "l", "t">>, suf |-> <<>>,
     rep |-> <<"U65E2", "U5B9A", "U5024">>]
  >>

\* Length of the match of \b stem (suf)? \b at position i of s, 0 if none.
\* The optional group is greedy: the suffix is taken when the match can
\* still end on a word boundary.
MatchLen(s, rule, i) ==
  IF WordBoundary(s, i) /\ StartsWithCI(s, i, rule.stem)
  THEN LET j == i + Len(rule.stem)
       IN  IF /\ rule.suf # <<>>
              /\ StartsWithCI(s, j, rule.suf)
              /\ WordBoundary(s, j + Len(rule.suf))
           THEN Len(rule.stem) + Len(rule.suf)
           ELSE IF WordBoundary(s, j) THEN Len(rule.stem) ELSE 0
  ELSE 0

RECURSIVE ReSubFrom(_, _, _)
\* the matches are taken from the left and do not overlap
ReSubFrom(s, rule, pos) ==
  LET starts == {i \in pos..Len(s) : MatchLen(s, rule, i) > 0}
  IN  IF starts = {} THEN Slice(s, pos, Len(s))
      ELSE LET i == Min(starts)
           IN  Slice(s, pos, i - 1) \o rule.rep
                 \o ReSubFrom(s, rule, i + MatchLen(s, rule, i))

\* re.sub(pat, rep, s, flags=re.IGNORECASE)
ReSub(s, rule) == ReSubFrom(s, rule, 1)

RECURSIVE ApplyReps(_, _)
\* for pat, rep in reps[k:]: out = re.sub(...)
ApplyReps(cur, k) ==
  IF k > Len(reps) THEN cur
  ELSE LET next == ReSub(cur, reps[k])
       IN  IF Len(next) >= 0 THEN ApplyReps(next, k + 1) ELSE next

RECURSIVE ApplyGlossary(_, _, _)
\* for en, ja in glossary.items(): cur = out.replace(en, ja)
ApplyGlossary(cur, g, k) ==
  IF k > Len(g) THEN cur
  ELSE LET next == StrReplace(cur, g[k].en, g[k].ja)
       IN  IF Len(next) >= 0 THEN ApplyGlossary(next, g, k + 1) ELSE next

EgMarker == <<" ", "e", ".", "g", ".">>
EgJa == <<" ", "U4F8B", ":">>
IeMarker == <<" ", "i", ".", "e", ".">>
IeJa == <<" ", "U3059", "U306A", "U308F", "U3061", " ">>

\* out.replace(" e.g.", ...).replace(" i.e.", ...)
Abbreviations(cur) == StrReplace(StrReplace(cur, EgMarker, EgJa), IeMarker, IeJa)

\* The loop over reps depends on s alone; its result is tabulated once for the
\* texts the inputs hold, and computed for any other text.
PatternInputs == Texts \cup RuleTexts \cup SpanTexts

PatternTable == [s \in PatternInputs |-> ApplyReps(s, 1)]

PatternPass(s) == IF s \in PatternInputs THEN PatternTable[s] ELSE ApplyReps(s, 1)

\* a slip: the glossary applied before the catalog
rule_based_translate_GlossaryFirst(s, g) ==
  Abbreviations(ApplyReps(ApplyGlossary(s, g, 1), 1))

rule_based_translate(s, g) ==
  Abbreviations(ApplyGlossary(PatternPass(s), g, 1))

----------------------------------------------------------------------------
(* The network backends.  What a provider answers is not the program's    *)
(* choice: an outcome is a failure, the text sent back as it came, or a    *)
(* translation with white space around it.                                 *)

Outcomes == {"raise", "echo", "reply"}

Content(o, s) ==
  IF o = "echo" THEN s ELSE <<" ", "U8A33", "\n">>

Call(f, a, raised, r) == [fn |-> f, arg |-> a, raised |-> raised, ret |-> r]

\* resp.choices[0].message.content.strip(), or an exception
openai_translate(s, o) ==
  IF o = "raise" THEN Call("openai_translate", s, TRUE, <<>>)
  ELSE Call("openai_translate", s, FALSE, Strip(Content(o, s)))

\* translator.translate_text(text, target_lang="JA").text, or an exception
deepl_translate(s, o) ==
  IF o = "raise" THEN Call("deepl_translate", s, TRUE, <<>>)
  ELSE Call("deepl_translate", s, FALSE, Content(o, s))

----------------------------------------------------------------------------
(* translate_text_block *)

EnglishLabel == <<"\n", "\n", "[", "E", "n", "g", "l", "i", "s", "h", "]", "\n">>

\* a slip: the original first, the translation under the label
Compose_OriginalFirst(ja, s, b) == IF b THEN s \o EnglishLabel \o ja ELSE ja

\* ja if not bilingual else f"{ja}\n\n[English]\n{text}"
Compose(ja, s, b) == IF b THEN ja \o EnglishLabel \o s ELSE ja

\* a slip: the two providers tested in the other order
TryTranslate_DeeplFirst(s, g, o) ==
  IF USE_DEEPL THEN deepl_translate(s, o)
  ELSE IF USE_OPENAI THEN openai_translate(s, o)
  ELSE Call("rule_based_translate", s, FALSE, rule_based_translate(s, g))

\* the try block: the calls made, the last one giving ja unless it raised
TryTranslate(s, g, o) ==
  IF USE_OPENAI THEN openai_translate(s, o)
  ELSE IF USE_DEEPL THEN deepl_translate(s, o)
  ELSE Call("rule_based_translate", s, FALSE, rule_based_translate(s, g))

\* a slip: the backend is tried a second time before the fallback
WithFallback_Retry(t, s, g) ==
  IF t.raised
  THEN <<t, t, Call("rule_based_translate", s, FALSE, rule_based_translate(s, g))>>
  ELSE <<t>>

\* except Exception: ja = rule_based_translate(text, glossary), once t raised
WithFallback(t, s, g) ==
  IF t.raised
  THEN <<t, Call("rule_based_translate", s, FALSE, rule_based_translate(s, g))>>
  ELSE <<t>>

\* the calls made after the call of translate_text_block itself, in order
InnerCalls(s, g, o) == WithFallback(TryTranslate(s, g, o), s, g)

\* the return statement, ja being what the last of the inner calls returned
TextBlockResult(s, b, inner, composed) ==
  [ret |-> composed,
   calls |-> <<Call("translate_text_block", s, FALSE, composed)>> \o inner]

TextBlockReturn(s, b, inner) ==
  TextBlockResult(s, b, inner, Compose(inner[Len(inner)].ret, s, b))

\* a slip: "if not text" for "if not text.strip()"
translate_text_block_EmptyOnly(s, g, b, o) ==
  IF s = <<>>
  THEN [ret |-> s, calls |-> <<Call("translate_text_block", s, FALSE, s)>>]
  ELSE TextBlockReturn(s, b, InnerCalls(s, g, o))

\* [ret |-> the value returned, calls |-> every call made, this one first]
translate_text_block(s, g, b, o) ==
  IF Strip(s) = <<>>
  THEN [ret |-> s, calls |-> <<Call("translate_text_block", s, FALSE, s)>>]
  ELSE TextBlockReturn(s, b, InnerCalls(s, g, o))

\* a call of translate_text_block on s reaches a network backend
UsesBackend(s) == Strip(s) # <<>> /\ (USE_OPENAI \/ USE_DEEPL)

----------------------------------------------------------------------------
(* translate_markdown_like *)

\* the outcome of the backend call a text part makes, n being used up
NextOutcome(oracle, n, part) == IF UsesBackend(part) THEN oracle[n + 1] ELSE "raise"

NextCount(n, part) == IF UsesBackend(part) THEN n + 1 ELSE n

\* out.append(...)
MdAppend(piece, made, rest) ==
  [out |-> <<piece>> \o rest.out, calls |-> made \o rest.calls]

\* a slip: the code branch appends nothing
MdCode_Dropped(part, rest) == rest

\* if kind == "code": out.append(part)
MdCode(part, rest) == MdAppend(part, <<>>, rest)

\* else: out.append(translate_text_block(part, ...)), r being what the call gave
MdAppendText(r, rest) == MdAppend(r.ret, r.calls, rest)

RECURSIVE MdLoop(_, _, _, _, _, _)
\* the for loop from span i on; n backend outcomes are used up.
\* [out |-> the list out, calls |-> the calls made]
MdLoop(spans, i, g, b, oracle, n) ==
  IF i > Len(spans) THEN [out |-> <<>>, calls |-> <<>>]
  ELSE IF spans[i].kind = "code"
  THEN MdCode(spans[i].part, MdLoop(spans, i + 1, g, b, oracle, n))
  ELSE MdAppendText(
         translate_text_block(spans[i].part, g, b,
                              NextOutcome(oracle, n, spans[i].part)),
         MdLoop(spans, i + 1, g, b, oracle, NextCount(n, spans[i].part)))

MdResult(l) == [ret |-> Join(l.out), out |-> l.out, calls |-> l.calls]

\* [ret |-> "".join(out), out |-> out, calls |-> the calls made]
translate_markdown_like(s, g, b, oracle) ==
  MdResult(MdLoop(split_md_blocks(s), 1, g, b, oracle, 0))

\* the number of backend outcomes translate_markdown_like(s) consumes
BackendSpans(spans) ==
  {i \in 1..Len(spans) : spans[i].kind = "text" /\ UsesBackend(spans[i].part)}

MdBackendCalls(s) == Cardinality(BackendSpans(split_md_blocks(s)))

----------------------------------------------------------------------------
(* translate_json_descriptions *)

(* A JSON value is [t |-> "dict", v |-> a sequence of [k |-> key, v |-> value]] *)
(* with the keys distinct and in the dict's order, [t |-> "list", v |-> a       *)
(* sequence of values], [t |-> "str", v |-> the string], or a number, a         *)
(* boolean or null: [t |-> "num" | "bool" | "null", v |-> its text].            *)

JStr(s) == [t |-> "str", v |-> s]

JsonResult(v, made, n) == [v |-> v, calls |-> made, n |-> n]

\* new[k] = translate_text_block(v, ...), c being what the call gave
JsonTranslated(c, n) == JsonResult(JStr(c.ret), c.calls, n)

\* r, then rest: the values and the calls in order
JsonCons(x, r, rest) ==
  JsonResult(<<x>> \o rest.v, r.calls \o rest.calls, rest.n)

JsonWrap(t, r) == JsonResult([t |-> t, v |-> r.v], r.calls, r.n)

RECURSIVE JsonWalk(_, _, _, _, _)
RECURSIVE JsonItems(_, _, _, _, _, _)
RECURSIVE JsonList(_, _, _, _, _, _)

\* a slip: the key is not looked at, every string of a dict is translated
JsonItem_AnyKey(k, v, g, b, oracle, n) ==
  IF v.t = "str"
  THEN JsonTranslated(translate_text_block(v.v, g, b, NextOutcome(oracle, n, v.v)),
                      NextCount(n, v.v))
  ELSE JsonWalk(v, g, b, oracle, n)

\* the value stored under key k for the value v
JsonItem(k, v, g, b, oracle, n) ==
  IF k = "description" /\ v.t = "str"
  THEN JsonTranslated(translate_text_block(v.v, g, b, NextOutcome(oracle, n, v.v)),
                      NextCount(n, v.v))
  ELSE JsonWalk(v, g, b, oracle, n)

JsonItemsFrom(items, i, g, b, oracle, r) ==
  JsonCons([k |-> items[i].k, v |-> r.v], r, JsonItems(items, i + 1, g, b, oracle, r.n))

\* for k, v in obj.items() from item i on; n backend outcomes are used up
JsonItems(items, i, g, b, oracle, n) ==
  IF i > Len(items) THEN JsonResult(<<>>, <<>>, n)
  ELSE JsonItemsFrom(items, i, g, b, oracle,
                     JsonItem(items[i].k, items[i].v, g, b, oracle, n))

JsonListFrom(xs, i, g, b, oracle, r) ==
  JsonCons(r.v, r, JsonList(xs, i + 1, g, b, oracle, r.n))

\* [translate_json_descriptions(x) for x in obj] from element i on
JsonList(xs, i, g, b, oracle, n) ==
  IF i > Len(xs) THEN JsonResult(<<>>, <<>>, n)
  ELSE JsonListFrom(xs, i, g, b, oracle, JsonWalk(xs[i], g, b, oracle, n))

\* [v |-> the new tree, calls |-> the calls made, n |-> outcomes used up]
JsonWalk(o, g, b, oracle, n) ==
  IF o.t = "dict" THEN JsonWrap("dict", JsonItems(o.v, 1, g, b, oracle, n))
  ELSE IF o.t = "list" THEN JsonWrap("list", JsonList(o.v, 1, g, b, oracle, n))
  ELSE JsonResult(o, <<>>, n)

translate_json_descriptions(o, g, b, oracle) == JsonWalk(o, g, b, oracle, 0)

RECURSIVE JsonBackendCalls(_, _)
\* the number of backend outcomes translate_json_descriptions(o) consumes;
\* underDesc: o is the value of a "description" key
JsonBackendCalls(o, underDesc) ==
  IF o.t = "dict"
  THEN LET c[i \in 0..Len(o.v)] ==
             IF i = 0 THEN 0
             ELSE c[i - 1] + JsonBackendCalls(o.v[i].v, o.v[i].k = "description")
       IN  c[Len(o.v)]
  ELSE IF o.t = "list"
  THEN LET c[i \in 0..Len(o.v)] ==
             IF i = 0 THEN 0 ELSE c[i - 1] + JsonBackendCalls(o.v[i], FALSE)
       IN  c[Len(o.v)]
  ELSE IF o.t = "str" /\ underDesc /\ UsesBackend(o.v) THEN 1 ELSE 0

----------------------------------------------------------------------------
(* Inputs: JSON trees and backend answers *)

\* largest JSON tree, in values (a dict or a list counts as one)
MaxNodes == 3

JsonScalars == {JStr(LogWord), JStr(<<" ">>), [t |-> "num", v |-> <<"1">>]}
JsonKeys == {"description", "title"}

\* the sequences of n distinct keys
KeySeqs(n) == {ks \in [1..n -> JsonKeys] : \A i, j \in 1..n : i # j => ks[i] # ks[j]}

RECURSIVE JsonOfSize(_)
RECURSIVE JsonSeqOfSize(_)
\* the sequences of JSON values of m values in all
JsonSeqOfSize(m) ==
  IF m = 0 THEN {<<>>}
  ELSE UNION {{<<x>> \o xs : x \in JsonOfSize(k), xs \in JsonSeqOfSize(m - k)} : k \in 1..m}

\* the JSON values of exactly n values
JsonOfSize(n) ==
  LET kids == JsonSeqOfSize(n - 1)
  IN  (IF n = 1 THEN JsonScalars ELSE {})
        \cup {[t |-> "list", v |-> xs] : xs \in kids}
        \cup UNION {{[t |-> "dict", v |-> [i \in 1..Len(xs) |-> [k |-> ks[i], v |-> xs[i]]]] :
                       ks \in KeySeqs(Len(xs))} : xs \in kids}

JsonTrees == UNION {JsonOfSize(n) : n \in 1..MaxNodes}

\* what the backends answer to the n calls of one operation
Oracles(n) == [1..n -> Outcomes]

----------------------------------------------------------------------------
(* The program: the process reads its credentials once, then a function of *)
(* the module is called and returns.                                       *)

NoJson == [t |-> "null", v |-> <<>>]

Init ==
  /\ USE_OPENAI \in BOOLEAN
  /\ USE_DEEPL \in BOOLEAN
  /\ pc = "ready"
  /\ fn = "none"
  /\ text = <<>>
  /\ obj = NoJson
  /\ glossary = <<>>
  /\ bilingual = FALSE
  /\ ret = <<>>
  /\ out = <<>>
  /\ new_data = NoJson
  /\ calls = <<>>
  /\ log = <<>>

\* rule_based_translate(s, glossary)
CallRuleBasedTranslate ==
  /\ pc = "ready"
  /\ \E s \in RuleTexts, g \in Glossaries :
       /\ fn' = "rule_based_translate"
       /\ text' = s
       /\ glossary' = g
       /\ \E r \in {rule_based_translate(s, g)} :
            /\ ret' = r
            /\ calls' = <<Call("rule_based_translate", s, FALSE, r)>>
  /\ pc' = "returned"
  /\ UNCHANGED <<USE_OPENAI, USE_DEEPL, obj, bilingual, out, new_data, log>>

\* translate_text_block(text, glossary, bilingual)
CallTranslateTextBlock ==
  /\ pc = "ready"
  /\ \E s \in Texts, g \in Glossaries, b \in BOOLEAN :
       \E o \in IF UsesBackend(s) THEN Outcomes ELSE {"raise"} :
         \E r \in {translate_text_block(s, g, b, o)} :
             /\ fn' = "translate_text_block"
             /\ text' = s
             /\ glossary' = g
             /\ bilingual' = b
             /\ ret' = r.ret
             /\ calls' = r.calls
  /\ pc' = "returned"
  /\ UNCHANGED <<USE_OPENAI, USE_DEEPL, obj, out, new_data, log>>

\* translate_markdown_like(text, glossary, bilingual)
CallTranslateMarkdownLike ==
  /\ pc = "ready"
  /\ \E s \in Docs, g \in Glossaries, b \in BOOLEAN :
       \E oracle \in Oracles(MdBackendCalls(s)) :
         \E r \in {translate_markdown_like(s, g, b, oracle)} :
             /\ fn' = "translate_markdown_like"
             /\ text' = s
             /\ glossary' = g
             /\ bilingual' = b
             /\ ret' = r.ret
             /\ out' = r.out
             /\ calls' = r.calls
  /\ pc' = "returned"
  /\ UNCHANGED <<USE_OPENAI, USE_DEEPL, obj, new_data, log>>

\* translate_json_descriptions(obj, glossary, bilingual)
CallTranslateJsonDescriptions ==
  /\ pc = "ready"
  /\ \E o \in JsonTrees, g \in Glossaries, b \in BOOLEAN :
       \E oracle \in Oracles(JsonBackendCalls(o, FALSE)) :
         \E r \in {translate_json_descriptions(o, g, b, oracle)} :
             /\ fn' = "translate_json_descriptions"
             /\ obj' = o
             /\ glossary' = g
             /\ bilingual' = b
             /\ new_data' = r.v
             /\ calls' = r.calls
  /\ pc' = "returned"
  /\ UNCHANGED <<USE_OPENAI, USE_DEEPL, text, ret, out, log>>

Next ==
  \/ CallRuleBasedTranslate
  \/ CallTranslateTextBlock
  \/ CallTranslateMarkdownLike
  \/ CallTranslateJsonDescriptions

Spec == Init /\ [][Next]_vars

----------------------------------------------------------------------------
(* What the claims speak of *)

Returned(f) == pc = "returned" /\ fn = f

\* w occurs in s
Contains(s, w) == \E i \in 1..(Len(s) - Len(w) + 1) : StartsWith(s, i, w)

IsBlank(s) == \A i \in 1..Len(s) : IsSpace(s[i])

IsNetwork(c) == c.fn \in {"openai_translate", "deepl_translate"}

\* the calls of translate_text_block in the log
TextBlockCalls == {i \in 1..Len(calls) : calls[i].fn = "translate_text_block"}

\* the calls made by the call of translate_text_block at i
InnerOf(i) ==
  {j \in (i + 1)..Len(calls) :
     \A k \in (i + 1)..j : calls[k].fn # "translate_text_block"}

Label == <<"\n", "\n", "[", "E", "n", "g", "l", "i", "s", "h", "]", "\n">>

\* the spans of the document, as split_md_blocks yields them
Spans == split_md_blocks(text)

CodeOf(spans) == {i \in 1..Len(spans) : spans[i].kind = "code"}

TextOf(spans) == {i \in 1..Len(spans) : spans[i].kind = "text"}

\* s holds a fence and, after it, a second one
HoldsFencedBlock(s) ==
  \E i \in 1..Len(s) : \E j \in (i + 3)..Len(s) :
    StartsWith(s, i, Fence) /\ StartsWith(s, j, Fence)

Kensaku == <<"U691C", "U7D22", "U3057", "U307E", "U3059">>
Saachi == <<"U30B5", "U30FC", "U30C1">>

----------------------------------------------------------------------------
(* Code fences *)

CodeKept(spans) ==
  /\ Len(out) = Len(spans)
  /\ \A i \in CodeOf(spans) : out[i] = spans[i].part
  /\ ret = Join(out)

NoCodePassed(spans) ==
  \A j \in 1..Len(calls) :
    /\ \A i \in CodeOf(spans) : calls[j].arg # spans[i].part
    /\ ~HoldsFencedBlock(calls[j].arg)

\* C1: translate_markdown_like appends every span that split_md_blocks tags
\* as code to out as it is and in its place, the output is the spans of out
\* joined, and nothing passed to translate_text_block, to a backend or to
\* rule_based_translate is a code span or holds a fenced block.
C1_CodeFenceInviolable ==
  Returned("translate_markdown_like") => CodeKept(Spans) /\ NoCodePassed(Spans)

FenceWithWordKept(spans) ==
  /\ \E i \in CodeOf(spans) : Contains(spans[i].part, LogWord) /\ out[i] = spans[i].part
  /\ \E j \in TextOf(spans) : out[j] # spans[j].part

\* a fenced block that holds a word of the catalog, next to text that the
\* translation changed
C1_Witness ==
  /\ Returned("translate_markdown_like")
  /\ bilingual
  /\ FenceWithWordKept(Spans)

PartsJoined(spans) == Join([i \in 1..Len(spans) |-> spans[i].part])

AllReturnedAsGiven == \A j \in TextBlockCalls : calls[j].ret = calls[j].arg

\* C2: the parts that split_md_blocks yields, joined in order, are the
\* document; and when every call of translate_text_block returned its
\* argument, translate_markdown_like returned the document.
C2_RoundTrip ==
  Returned("translate_markdown_like") =>
    /\ PartsJoined(Spans) = text
    /\ AllReturnedAsGiven => ret = text

AdjacentThenUnbalanced(spans) ==
  /\ Len(spans) = 5
  /\ spans[3].part = <<>>
  /\ Contains(spans[5].part, Fence)

\* two adjacent fenced blocks, then an unbalanced fence, all text left as it was
C2_Witness ==
  /\ Returned("translate_markdown_like")
  /\ AdjacentThenUnbalanced(Spans)
  /\ AllReturnedAsGiven
  /\ ret = text

----------------------------------------------------------------------------
(* The dispatcher *)

FirstChoice ==
  IF USE_OPENAI THEN "openai_translate"
  ELSE IF USE_DEEPL THEN "deepl_translate"
  ELSE "rule_based_translate"

\* C3: a call of translate_text_block with a text that is not blank calls
\* first openai_translate if USE_OPENAI, else deepl_translate if USE_DEEPL,
\* else rule_based_translate, with that text; it calls at most one network
\* backend; and with USE_OPENAI deepl_translate is never called.
C3_BackendPriority ==
  pc = "returned" =>
    /\ \A i \in TextBlockCalls :
         ~IsBlank(calls[i].arg) =>
           /\ i + 1 \in InnerOf(i)
           /\ calls[i + 1].fn = FirstChoice
           /\ calls[i + 1].arg = calls[i].arg
           /\ Cardinality({j \in InnerOf(i) : IsNetwork(calls[j])}) <= 1
    /\ USE_OPENAI => \A j \in 1..Len(calls) : calls[j].fn # "deepl_translate"

\* both credentials, provider A fails, in a document with two text spans
C3_Witness ==
  /\ Returned("translate_markdown_like")
  /\ USE_OPENAI /\ USE_DEEPL
  /\ Cardinality(TextBlockCalls) >= 2
  /\ \E j \in 1..Len(calls) : calls[j].fn = "openai_translate" /\ calls[j].raised
  /\ \E j \in 1..Len(calls) : calls[j].fn = "openai_translate" /\ ~calls[j].raised

\* C4: when the backend that translate_text_block called raised, the calls
\* it made are that one and then one of rule_based_translate with the same
\* text, and it returned what rule_based_translate gave for the text and the
\* glossary, composed as bilingual says.
C4_SingleFallback ==
  pc = "returned" =>
    \A i \in TextBlockCalls : \A j \in InnerOf(i) :
      (IsNetwork(calls[j]) /\ calls[j].raised) =>
        /\ InnerOf(i) = {i + 1, i + 2}
        /\ j = i + 1
        /\ calls[j].arg = calls[i].arg
        /\ calls[i + 2] = Call("rule_based_translate", calls[i].arg, FALSE,
                               rule_based_translate(calls[i].arg, glossary))
        /\ ~calls[i].raised
        /\ calls[i].ret = IF bilingual
                          THEN calls[i + 2].ret \o Label \o calls[i].arg
                          ELSE calls[i + 2].ret

\* the backend raised and the fallback changed the text
C4_Witness ==
  /\ Returned("translate_text_block")
  /\ Len(calls) = 3
  /\ IsNetwork(calls[2]) /\ calls[2].raised
  /\ calls[3].fn = "rule_based_translate" /\ calls[3].ret # text
  /\ ret = calls[3].ret

\* C5: a call of translate_text_block with an empty or all-whitespace text
\* returns the text and calls nothing.
C5_BlankShortCircuit ==
  pc = "returned" =>
    \A i \in TextBlockCalls :
      IsBlank(calls[i].arg) =>
        /\ calls[i].ret = calls[i].arg
        /\ InnerOf(i) = {}
        /\ fn = "translate_text_block" => ret = text

\* whitespace, with a credential and bilingual set
C5_Witness ==
  /\ Returned("translate_text_block")
  /\ text = <<" ", "\n">>
  /\ USE_OPENAI /\ bilingual
  /\ ret = text /\ Len(calls) = 1

\* C8: a call of translate_text_block with a text that is not blank returns
\* ja, then "\n\n[English]\n", then the text, when bilingual, and ja alone
\* when not; ja is what the last translator called returned.
C8_BilingualComposition ==
  pc = "returned" =>
    /\ \A i \in TextBlockCalls :
         (~IsBlank(calls[i].arg) /\ InnerOf(i) # {}) =>
           LET ja == calls[CHOOSE j \in InnerOf(i) : \A k \in InnerOf(i) : k <= j].ret
           IN  calls[i].ret = IF bilingual THEN ja \o Label \o calls[i].arg ELSE ja
    /\ fn = "translate_text_block" => ret = calls[1].ret

\* bilingual, the translation from a backend
C8_Witness ==
  /\ Returned("translate_text_block")
  /\ bilingual
  /\ Len(calls) = 2 /\ calls[2].fn = "deepl_translate"
  /\ ret = calls[2].ret \o Label \o text
  /\ calls[2].ret # text

----------------------------------------------------------------------------
(* The JSON walker *)

RECURSIVE JsonSame(_, _, _)
\* b is a but for the strings stored under "description" (underDesc: a is
\* the value of a "description" key)
JsonSame(a, b, underDesc) ==
  IF a.t = "dict"
  THEN /\ b.t = "dict"
       /\ Len(b.v) = Len(a.v)
       /\ \A i \in 1..Len(a.v) :
            /\ b.v[i].k = a.v[i].k
            /\ JsonSame(a.v[i].v, b.v[i].v, a.v[i].k = "description")
  ELSE IF a.t = "list"
  THEN /\ b.t = "list"
       /\ Len(b.v) = Len(a.v)
       /\ \A i \in 1..Len(a.v) : JsonSame(a.v[i], b.v[i], FALSE)
  ELSE IF a.t = "str" /\ underDesc THEN b.t = "str"
  ELSE b = a

RECURSIVE DescStrings(_, _)
\* the strings stored under "description", in the order of the tree
DescStrings(a, underDesc) ==
  IF a.t = "dict"
  THEN Join([i \in 1..Len(a.v) |-> DescStrings(a.v[i].v, a.v[i].k = "description")])
  ELSE IF a.t = "list"
  THEN Join([i \in 1..Len(a.v) |-> DescStrings(a.v[i], FALSE)])
  ELSE IF a.t = "str" /\ underDesc THEN <<a.v>>
  ELSE <<>>

IsTextBlockCall(c) == c.fn = "translate_text_block"

\* C6: the tree translate_json_descriptions returns has the keys of every
\* dict in their order, the elements of every list in their order, and every
\* value as it was, but for the strings stored under "description": these are
\* what translate_text_block returned for them, called once for each, in order.
C6_JsonShape ==
  Returned("translate_json_descriptions") =>
    /\ JsonSame(obj, new_data, FALSE)
    /\ LET made == SelectSeq(calls, IsTextBlockCall)
       IN  /\ [i \in 1..Len(made) |-> made[i].arg] = DescStrings(obj, FALSE)
           /\ [i \in 1..Len(made) |-> made[i].ret] = DescStrings(new_data, FALSE)

\* {"description": "log", "title": "log"}: the one translated, the other not
C6_Witness ==
  /\ Returned("translate_json_descriptions")
  /\ obj = [t |-> "dict", v |-> <<[k |-> "description", v |-> JStr(LogWord)],
                                  [k |-> "title", v |-> JStr(LogWord)]>>]
  /\ new_data.v[1].v # JStr(LogWord)
  /\ new_data.v[2].v = JStr(LogWord)

\* a dict under "description" is walked, the string under its own
\* "description" translated
C6_WitnessNested ==
  /\ Returned("translate_json_descriptions")
  /\ obj = [t |-> "dict", v |-> <<[k |-> "description", v |->
              [t |-> "dict", v |-> <<[k |-> "description", v |-> JStr(LogWord)]>>]]>>]
  /\ new_data # obj

----------------------------------------------------------------------------
(* The rule-based translator and the glossary *)

\* the rule matches the whole of w
FullMatch(w, rule) == w # <<>> /\ MatchLen(w, rule, 1) = Len(w)

\* w stands in s as a word of its own
WholeWordIn(s, w) ==
  \E i \in 1..Len(s) :
    StartsWith(s, i, w) /\ WordBoundary(s, i) /\ WordBoundary(s, i + Len(w))

\* no character of w is one of t
NoShared(w, t) == \A i \in 1..Len(w) : \A j \in 1..Len(t) : w[i] # t[j]

\* C7, as claimed: where a rule of the catalog transforms a word and the
\* glossary maps that word, the output for a text holding the word holds the
\* glossary's term.
C7_GlossaryWins ==
  Returned("rule_based_translate") =>
    \A k \in 1..Len(glossary) : \A r \in 1..Len(reps) :
      (FullMatch(glossary[k].en, reps[r]) /\ WholeWordIn(text, glossary[k].en))
        => Contains(ret, glossary[k].ja)

\* C7, amended: where a rule of the catalog transforms a word, the glossary
\* maps that word, and no source term of the glossary shares a character with
\* the rule's replacement, the output for a text holding the word holds the
\* rule's replacement, and the output for the word alone is the replacement:
\* the catalog runs first and leaves the glossary no "Search" to replace.
C7_PatternRuleWins ==
  Returned("rule_based_translate") =>
    \A k \in 1..Len(glossary) : \A r \in 1..Len(reps) :
      (/\ FullMatch(glossary[k].en, reps[r])
       /\ WholeWordIn(text, glossary[k].en)
       /\ \A m \in 1..Len(glossary) : NoShared(glossary[m].en, reps[r].rep))
        => /\ Contains(ret, reps[r].rep)
           /\ text = glossary[k].en => ret = reps[r].rep

\* "Search" with a glossary that maps "Search"
C7_Witness ==
  /\ Returned("rule_based_translate")
  /\ text = SearchWord
  /\ \E k \in 1..Len(glossary) : glossary[k] = [en |-> SearchWord, ja |-> Saachi]
  /\ ret = Kensaku
  /\ ~Contains(ret, Saachi)

----------------------------------------------------------------------------
(* An unbalanced fence *)

RECURSIVE FenceStartsFrom(_, _)
\* where the fences of s stand, read from the left, no two overlapping
FenceStartsFrom(s, pos) ==
  IF \E i \in pos..Len(s) : StartsWith(s, i, Fence)
  THEN LET i == Min({k \in pos..Len(s) : StartsWith(s, k, Fence)})
       IN  <<i>> \o FenceStartsFrom(s, i + 3)
  ELSE <<>>

FenceStarts == FenceStartsFrom(text, 1)

\* the last fence of the document opens a block that nothing closes
UnbalancedAt(fs) == Len(fs) % 2 = 1

\* where the text after the last closed block begins
AfterLastBlock(fs) == IF Len(fs) = 1 THEN 1 ELSE fs[Len(fs) - 1] + 3

TrailingCode(fs, last) ==
  UnbalancedAt(fs) =>
    /\ last.kind = "code"
    /\ last.part = SubSeq(text, fs[Len(fs)], Len(text))

\* C9, as claimed: the document from the unbalanced fence on is one trailing
\* span, of the kind that fence opens.
C9_TrailingCodeSpan ==
  Returned("translate_markdown_like") =>
    TrailingCode(FenceStarts, Spans[Len(Spans)])

TrailingText(fs, spans) ==
  UnbalancedAt(fs) =>
    /\ Len(spans) = Len(fs)
    /\ spans[Len(spans)].kind = "text"
    /\ spans[Len(spans)].part = SubSeq(text, AfterLastBlock(fs), Len(text))
    /\ AfterLastBlock(fs) <= fs[Len(fs)]
    /\ \E j \in TextBlockCalls :
         /\ calls[j].arg = spans[Len(spans)].part
         /\ calls[j].ret = out[Len(out)]

\* C9, amended: the unbalanced fence opens no span.  The trailing span is a
\* text span: it runs from the end of the last closed block (or from the start
\* of the document) to the end, the unbalanced fence and what follows it
\* inside, and is handed to translate_text_block like any text span.
C9_TrailingTextSpan ==
  Returned("translate_markdown_like") => TrailingText(FenceStarts, Spans)

TextThenFenceThenWord(fs, spans) ==
  /\ UnbalancedAt(fs)
  /\ Len(spans) = 3
  /\ AfterLastBlock(fs) < fs[Len(fs)]
  /\ Contains(SubSeq(text, fs[Len(fs)], Len(text)), LogWord)
  /\ out[3] # spans[3].part

\* a closed block, then text, an unbalanced fence and a word of the catalog,
\* which the translation changed
C9_Witness ==
  /\ Returned("translate_markdown_like")
  /\ TextThenFenceThenWord(FenceStarts, Spans)

----------------------------------------------------------------------------
(* The fallback and the log *)

\* C10: when a backend raised and translate_text_block fell back to
\* rule_based_translate, the program has written something about it.
C10_FallbackLogged ==
  pc = "returned" =>
    ((\E j \in 1..Len(calls) : IsNetwork(calls[j]) /\ calls[j].raised) => log # <<>>)

====
